---- MODULE Spec2Model ----
(***************************************************************************)
(* Discordian dates (crate ddate 0.4.0).                                   *)
(*                                                                         *)
(* The crate is one provided trait method, DiscordianDate::to_poee, which  *)
(* every chrono Datelike type gets through a blanket impl, the private     *)
(* helper ordinalize, and a binary that prints to_poee of a date.          *)
(*                                                                         *)
(* Rust Strings that the code only builds are TLA+ strings; the String     *)
(* that ordinalize inspects with ends_with is a sequence of one-character  *)
(* strings, flattened when it is returned.                                 *)
(***************************************************************************)
EXTENDS Integers, Sequences, FiniteSets, TLC

VARIABLES
    self,    \* the receiver of to_poee: [year, ordinal0], what Datelike exposes
    num,     \* the argument of ordinalize
    pc,      \* which call is pending: "to_poee", "ordinalize", "main", or "done"
    ret,     \* the outcome of the last to_poee call, with the locals it bound
    ord,     \* the String the last ordinalize call returned
    today,   \* the date Local::today() returned to the last run of main
    stdout,  \* the line the last run of main printed
    last     \* history: the outcome of the last run of main that was not St. Tib's Day

vars == <<self, num, pc, ret, ord, today, stdout, last>>

----------------------------------------------------------------------------
\* Bounds of the model.

\* Years are taken in windows of YearSpan years on each side of a base year.
YearSpan == 2
\* The largest zero-based day of year a Datelike receiver reports (a chrono
\* date reports at most 365).
MaxOrdinal0 == 370
\* The largest argument of ordinalize.
MaxNum == 1125

BaseYears == {-1166, -400, -100, 0, 1066, 1900, 2000, 2017}
Years == {b + k : b \in BaseYears, k \in (0 - YearSpan)..YearSpan}

----------------------------------------------------------------------------
\* The constants of lib.rs.  Rust arrays are indexed from 0.

APOSTLES == <<"Mungday", "Mojoday", "Syaday", "Zaraday", "Maladay">>
HOLYDAYS == <<"Chaoflux", "Discoflux", "Confuflux", "Bureflux", "Afflux">>
SEASONS == <<"Chaos", "Discord", "Confusion", "Bureaucracy", "The Aftermath">>
WEEKDAYS == <<"Sweetmorn", "Boomtime", "Pungenday", "Prickle-Prickle", "Setting Orange">>

APOSTLE_HOLYDAY == 5
ST_TIBS_DAY == 59
SEASON_DAYS == 73
SEASON_HOLYDAY == 50
WEEK_DAYS == 5
CURSE_OF_GREYFACE == 1166

----------------------------------------------------------------------------
\* Rust's integer arithmetic.

I32_MAX == 2147483647
I32_MIN == (0 - I32_MAX) - 1

\* a % b on i32 with b > 0: the remainder has the sign of the dividend.
rem_i32(a, b) == IF a >= 0 THEN a % b ELSE 0 - ((0 - a) % b)

\* a + b on i32, wrapped to the width (what a release build computes; a
\* debug build panics where this wraps).
add_i32(a, b) ==
    IF b > 0 /\ a > I32_MAX - b THEN (a + I32_MIN) + (b + I32_MIN)
    ELSE IF b < 0 /\ a < I32_MIN - b THEN ((a + I32_MAX) + 1) + ((b + I32_MAX) + 1)
    ELSE a + b

----------------------------------------------------------------------------
\* Display of integers: num.to_string() and format!("{}", year).

DIGIT_CHARS == <<"0", "1", "2", "3", "4", "5", "6", "7", "8", "9">>

RECURSIVE usize_to_string(_)
\* The decimal digits of n >= 0, most significant first, one character each.
usize_to_string(n) ==
    IF n < 10 THEN <<DIGIT_CHARS[n + 1]>>
    ELSE Append(usize_to_string(n \div 10), DIGIT_CHARS[(n % 10) + 1])

RECURSIVE flatten(_)
\* The characters of s as one string.
flatten(s) == IF s = <<>> THEN "" ELSE Head(s) \o flatten(Tail(s))

\* Display of an i32: a minus sign for a negative number, then the digits.
i32_to_string(n) ==
    IF n < 0 THEN "-" \o flatten(usize_to_string(0 - n))
    ELSE flatten(usize_to_string(n))

\* str::ends_with(pat) for a pattern of one or more characters.
ends_with(s, pat) ==
    /\ Len(pat) <= Len(s)
    /\ SubSeq(s, Len(s) - Len(pat) + 1, Len(s)) = pat

----------------------------------------------------------------------------
\* fn ordinalize(num: usize) -> String

suffix_no_teens(s) ==
    IF ends_with(s, <<"1">>) THEN "st"
    ELSE IF ends_with(s, <<"2">>) THEN "nd"
    ELSE IF ends_with(s, <<"3">>) THEN "rd"
    ELSE "th"

suffix(s) ==
    IF ends_with(s, <<"1">>) /\ ~ends_with(s, <<"1", "1">>) THEN "st"
    ELSE IF ends_with(s, <<"2">>) /\ ~ends_with(s, <<"1", "2">>) THEN "nd"
    ELSE IF ends_with(s, <<"3">>) /\ ~ends_with(s, <<"1", "3">>) THEN "rd"
    ELSE "th"

ordinalize(n) ==
    LET s == usize_to_string(n)
    IN flatten(s) \o suffix(s)

----------------------------------------------------------------------------
\* fn to_poee(&self) -> String

\* Line 77: the leap flag, with Rust's precedence (&& binds tighter than ||).
leap_no_400(y) == rem_i32(y, 4) = 0 /\ rem_i32(y, 100) # 0

leap_of(y) ==
    (rem_i32(y, 4) = 0 /\ rem_i32(y, 100) # 0) \/ rem_i32(y, 400) = 0

\* Line 80: the St. Tib's Day test.
is_tibs_any_year(leap, day) == day = ST_TIBS_DAY

is_tibs(leap, day) == leap /\ day = ST_TIBS_DAY

\* Lines 84-88.
day_offset_unshifted(leap, day) == day

day_offset(leap, day) == IF leap /\ day > ST_TIBS_DAY THEN day - 1 ELSE day

\* Line 90.
day_of_season_zero_based(offset) == offset % SEASON_DAYS

day_of_season(offset) == (offset % SEASON_DAYS) + 1

\* Line 78.
yold_minus(y) == add_i32(y, 0 - CURSE_OF_GREYFACE)

yold(y) == add_i32(y, CURSE_OF_GREYFACE)

\* Line 93: the index into WEEKDAYS.
weekday_index_by_season_day(offset) == (offset % SEASON_DAYS) % WEEK_DAYS

weekday_index(offset) == offset % WEEK_DAYS

\* Lines 92, 93, 96, 98: table[i] on a Rust array, which panics when i is not
\* below the length.
get_wrapping(table, i) == [some |-> TRUE, value |-> table[(i % Len(table)) + 1]]

get(table, i) ==
    IF i < Len(table) THEN [some |-> TRUE, value |-> table[i + 1]]
    ELSE [some |-> FALSE, value |-> ""]

\* Lines 95-101.
holiday_both_seasonal(dos, offset) ==
    IF dos = APOSTLE_HOLYDAY THEN "\nCelebrate " \o get(HOLYDAYS, offset \div SEASON_DAYS).value
    ELSE IF dos = SEASON_HOLYDAY THEN "\nCelebrate " \o get(HOLYDAYS, offset \div SEASON_DAYS).value
    ELSE ""

holiday(dos, offset) ==
    IF dos = APOSTLE_HOLYDAY THEN "\nCelebrate " \o get(APOSTLES, offset \div SEASON_DAYS).value
    ELSE IF dos = SEASON_HOLYDAY THEN "\nCelebrate " \o get(HOLYDAYS, offset \div SEASON_DAYS).value
    ELSE ""

\* What a call leaves behind: how it ended and at which line of lib.rs, the
\* String it returned, the panic message if it panicked, and the locals it
\* had bound by then (a local it never bound is 0 or "").
Frame(outcome, at, text, panic, leap, year, offset, dos, season, weekday, hol) ==
    [outcome |-> outcome, at |-> at, text |-> text, panic |-> panic,
     leap |-> leap, year |-> year,
     day_offset |-> offset, day_of_season |-> dos, season |-> season,
     weekday |-> weekday, holiday |-> hol]

NotCalled == Frame("pending", 0, "", "", FALSE, 0, 0, 0, "", "", "")

\* The message of an indexing panic.
PanicMessage(len, i) ==
    "index out of bounds: the len is " \o flatten(usize_to_string(len))
        \o " but the index is " \o flatten(usize_to_string(i))

to_poee(d) ==
    LET day == d.ordinal0
        leap == leap_of(d.year)
        year == yold(d.year)
    IN  IF is_tibs(leap, day)
        THEN Frame("returned", 81, "St. Tib's Day, in the YOLD " \o i32_to_string(year), "",
                   leap, year, 0, 0, "", "", "")
        ELSE
        LET offset == day_offset(leap, day)
            dos == day_of_season(offset)
            season == get(SEASONS, offset \div SEASON_DAYS)
        IN  IF ~season.some
            THEN Frame("panicked", 92, "", PanicMessage(Len(SEASONS), offset \div SEASON_DAYS),
                       leap, year, offset, dos, "", "", "")
            ELSE
            LET weekday == get(WEEKDAYS, weekday_index(offset)).value
                hol == holiday(dos, offset)
            IN  Frame("returned", 103,
                      weekday \o ", the " \o ordinalize(dos) \o " day of " \o season.value
                          \o " in the YOLD " \o i32_to_string(year) \o hol,
                      "", leap, year, offset, dos, season.value, weekday, hol)

----------------------------------------------------------------------------
\* The calendar of chrono, which supplies the receivers.

\* k divides y (k > 0).
Divides(k, y) ==
    LET a == IF y < 0 THEN 0 - y ELSE y
    IN \E q \in {a \div k} : a = k * q

\* The proleptic Gregorian leap rule.
GregorianLeap(y) == Divides(4, y) /\ (~Divides(100, y) \/ Divides(400, y))

DaysInYear(y) == IF GregorianLeap(y) THEN 366 ELSE 365

\* A date chrono can construct: ordinal0 is below the length of its year.
ChronoDate(d) == d.ordinal0 < DaysInYear(d.year)

\* The day after d.
Succ(d) ==
    IF d.ordinal0 + 1 < DaysInYear(d.year)
    THEN [year |-> d.year, ordinal0 |-> d.ordinal0 + 1]
    ELSE [year |-> d.year + 1, ordinal0 |-> 0]

NoDate == [year |-> 0, ordinal0 |-> 0]

----------------------------------------------------------------------------
\* Calls of the two functions on inputs drawn by Init.

Init ==
    /\ \/ /\ pc = "to_poee"
          /\ self \in [year : Years, ordinal0 : 0..MaxOrdinal0]
          /\ num = 0
       \/ /\ pc = "ordinalize"
          /\ num \in 0..MaxNum
          /\ self = NoDate
    /\ ret = NotCalled
    /\ ord = ""
    /\ today = NoDate
    /\ stdout = ""
    /\ last = NotCalled

\* x.to_poee() on a Datelike x (the blanket impl gives it to every Datelike).
CallToPoee ==
    /\ pc = "to_poee"
    /\ ret' = to_poee(self)
    /\ pc' = "done"
    /\ UNCHANGED <<self, num, ord, today, stdout, last>>

\* ordinalize(num)
CallOrdinalize ==
    /\ pc = "ordinalize"
    /\ ord' = ordinalize(num)
    /\ pc' = "done"
    /\ UNCHANGED <<self, num, ret, today, stdout, last>>

Next == CallToPoee \/ CallOrdinalize

Spec == Init /\ [][Next]_vars

----------------------------------------------------------------------------
\* The binary run without an argument, once on each day of a run of years.

InitCalendar ==
    /\ pc = "main"
    /\ today \in {[year |-> b - YearSpan - 1, ordinal0 |-> DaysInYear(b - YearSpan - 1) - 1] :
                    b \in BaseYears}
    /\ self = today
    /\ num = 0
    /\ ret = NotCalled
    /\ ord = ""
    /\ stdout = ""
    /\ last = NotCalled

\* main, the else branch: println!("Today is {}", Local::today().to_poee()),
\* on the day after the previous run.
MainToday ==
    /\ pc = "main"
    /\ Succ(today).year \in Years
    /\ today' = Succ(today)
    /\ self' = today'
    /\ ret' = to_poee(today')
    /\ stdout' = "Today is " \o ret'.text
    /\ last' = IF ret.at = 103 THEN ret ELSE last
    /\ UNCHANGED <<num, pc, ord>>

NextCalendar == MainToday

SpecCalendar == InitCalendar /\ [][NextCalendar]_vars

----------------------------------------------------------------------------
\* What the properties below expect, stated without the code's tables and
\* without its arithmetic on strings.

SeasonNames == {"Chaos", "Discord", "Confusion", "Bureaucracy", "The Aftermath"}

\* The place of a season in the year, from 0.
SeasonPosition(s) ==
    CASE s = "Chaos" -> 0
      [] s = "Discord" -> 1
      [] s = "Confusion" -> 2
      [] s = "Bureaucracy" -> 3
      [] s = "The Aftermath" -> 4

ApostleOf(s) ==
    CASE s = "Chaos" -> "Mungday"
      [] s = "Discord" -> "Mojoday"
      [] s = "Confusion" -> "Syaday"
      [] s = "Bureaucracy" -> "Zaraday"
      [] s = "The Aftermath" -> "Maladay"

FluxOf(s) ==
    CASE s = "Chaos" -> "Chaoflux"
      [] s = "Discord" -> "Discoflux"
      [] s = "Confusion" -> "Confuflux"
      [] s = "Bureaucracy" -> "Bureflux"
      [] s = "The Aftermath" -> "Afflux"

\* The weekday that follows w in the cycle.
NextWeekday(w) ==
    CASE w = "Sweetmorn" -> "Boomtime"
      [] w = "Boomtime" -> "Pungenday"
      [] w = "Pungenday" -> "Prickle-Prickle"
      [] w = "Prickle-Prickle" -> "Setting Orange"
      [] w = "Setting Orange" -> "Sweetmorn"

\* The weekday of the n-th day (from 0) of a cycle that starts on Sweetmorn.
RECURSIVE WeekdayAfter(_)
WeekdayAfter(n) == IF n = 0 THEN "Sweetmorn" ELSE NextWeekday(WeekdayAfter(n - 1))

\* The English ordinal suffix of n, by the number.
EnglishSuffix(n) ==
    IF n % 10 = 1 /\ n % 100 # 11 THEN "st"
    ELSE IF n % 10 = 2 /\ n % 100 # 12 THEN "nd"
    ELSE IF n % 10 = 3 /\ n % 100 # 13 THEN "rd"
    ELSE "th"

TibsText(y) == "St. Tib's Day, in the YOLD " \o ToString(y + 1166)

\* The line for an ordinary day of year y with the fields of f.
Rendered(f, y) ==
    f.weekday \o ", the " \o ToString(f.day_of_season) \o EnglishSuffix(f.day_of_season)
        \o " day of " \o f.season \o " in the YOLD " \o ToString(y + 1166) \o f.holiday

\* A to_poee call has ended, and how.
Called == pc = "done" /\ ret.outcome # "pending"
Returned == pc = "done" /\ ret.outcome = "returned"
IsTibsInput == GregorianLeap(self.year) /\ self.ordinal0 = 59

----------------------------------------------------------------------------
\* C1: to_poee returns exactly "St. Tib's Day, in the YOLD {year+1166}" if and
\* only if the year is a leap year and the zero-based day of year is 59; day
\* 59 of a non-leap year is the 60th day of Chaos, and no input of a non-leap
\* year yields a St. Tib's Day string of any year.
C1_TibsIffLeapDay59 ==
    Called =>
        /\ (ret.outcome = "returned" /\ ret.text = TibsText(self.year)) <=> IsTibsInput
        /\ (~GregorianLeap(self.year) /\ self.ordinal0 = 59) =>
               ret.text = "Setting Orange, the 60th day of Chaos in the YOLD "
                              \o ToString(self.year + 1166)
        /\ ~GregorianLeap(self.year) => \A y \in Years : ret.text # TibsText(y)

C1_Witness ==
    /\ pc = "done"
    /\ self = [year |-> 2000, ordinal0 |-> 59]
    /\ ret.text = "St. Tib's Day, in the YOLD 3166"

\* C5: ordinalize(n) is the decimal rendering of n followed by "st" when n
\* ends in 1 but not in 11, "nd" when it ends in 2 but not in 12, "rd" when it
\* ends in 3 but not in 13, and "th" otherwise, for every magnitude.
C5_OrdinalSuffix ==
    (pc = "done" /\ ord # "") => ord = ToString(num) \o EnglishSuffix(num)

C5_Witness == pc = "done" /\ num = 111 /\ ord = "111th"

\* C6: the YOLD number of every output, St. Tib's Day or not, is the Gregorian
\* year plus 1166, for zero and negative years too, whatever the day.
C6_YoldIsYearPlus1166 ==
    Returned =>
        /\ ret.year = self.year + 1166
        /\ ret.at = 81 => ret.text = TibsText(self.year)
        /\ ret.at = 103 => ret.text = Rendered(ret, self.year)

C6_Witness ==
    /\ pc = "done"
    /\ self = [year |-> -1168, ordinal0 |-> 59]
    /\ ret.text = "St. Tib's Day, in the YOLD -2"

\* C8: the leap flag computed with the truncating remainder is the Gregorian
\* rule (divisible by 4 and not by 100, unless divisible by 400) for every
\* year, negative years and century years included.
C8_LeapFlagIsGregorian == Called => (ret.leap <=> GregorianLeap(self.year))

C8_Witness == Called /\ self.year = -400 /\ ret.leap

\* The fields of the outcome of to_poee on day e of year y.
Poee(y, e) == to_poee([year |-> y, ordinal0 |-> e])

\* The days of year y that to_poee puts in season s.
DaysInSeason(y, s) == {e \in 0..(DaysInYear(y) - 1) : Poee(y, e).season = s}

\* A receiver that is a date of the calendar.
ValidInput == Called /\ ChronoDate(self)

\* C2: around St. Tib's Day the leap-year mapping continues the non-leap one:
\* day d of a leap year gives the weekday, season, day of season and holyday
\* that a non-leap year gives for d when d <= 58 and for d - 1 when d >= 60;
\* leap day 365 is the 73rd day of The Aftermath.
C2_LeapContinuesNonLeap ==
    (ValidInput /\ GregorianLeap(self.year) /\ self.ordinal0 # 59) =>
        /\ ret.outcome = "returned"
        /\ \A n \in Years : ~GregorianLeap(n) =>
               LET e == IF self.ordinal0 <= 58 THEN self.ordinal0 ELSE self.ordinal0 - 1
                   other == Poee(n, e)
               IN  /\ other.outcome = "returned"
                   /\ ret.weekday = other.weekday
                   /\ ret.season = other.season
                   /\ ret.day_of_season = other.day_of_season
                   /\ ret.holiday = other.holiday
                   /\ ret.text = Rendered(other, self.year)
        /\ self.ordinal0 = 365 => ret.day_of_season = 73 /\ ret.season = "The Aftermath"

C2_Witness ==
    /\ pc = "done"
    /\ self = [year |-> 2000, ordinal0 |-> 60]
    /\ ret.text = "Setting Orange, the 60th day of Chaos in the YOLD 3166"

\* C3: in a non-leap year the days 0..364 fall into the five seasons in the
\* order Chaos, Discord, Confusion, Bureaucracy, The Aftermath, 73 days each,
\* the day of season running 1..73, so that the season and the day of season
\* determine the day; the weekday has period 5 and is Sweetmorn on day 0.
C3_SeasonsPartitionYear ==
    (ValidInput /\ ~GregorianLeap(self.year)) =>
        /\ ret.outcome = "returned"
        /\ ret.season \in SeasonNames
        /\ ret.day_of_season \in 1..73
        /\ self.ordinal0 = 73 * SeasonPosition(ret.season) + (ret.day_of_season - 1)
        /\ ret.weekday = WeekdayAfter(self.ordinal0 % 5)
        /\ ret.text = Rendered(ret, self.year)
        /\ self.ordinal0 = 364 =>
               /\ \A s \in SeasonNames : Cardinality(DaysInSeason(self.year, s)) = 73
               /\ Cardinality({<<Poee(self.year, e).season, Poee(self.year, e).day_of_season>> :
                                  e \in 0..364}) = 365

C3_Witness ==
    /\ pc = "done"
    /\ self = [year |-> 2017, ordinal0 |-> 364]
    /\ ret.text = "Setting Orange, the 73rd day of The Aftermath in the YOLD 3183"

\* C4: in every season the 5th day alone carries "\nCelebrate " and the
\* apostolic holyday of that season, the 50th day alone carries "\nCelebrate "
\* and its seasonal holyday, the other 71 days and St. Tib's Day carry nothing,
\* and no day carries both.
C4_HolydaysOncePerSeason ==
    ValidInput =>
        /\ ret.outcome = "returned"
        /\ ret.at = 81 => ret.holiday = "" /\ ret.text = TibsText(self.year)
        /\ ret.at = 103 =>
               /\ ret.holiday =
                      IF ret.day_of_season = 5 THEN "\nCelebrate " \o ApostleOf(ret.season)
                      ELSE IF ret.day_of_season = 50 THEN "\nCelebrate " \o FluxOf(ret.season)
                      ELSE ""
               /\ ret.text = Rendered(ret, self.year)
        /\ self.ordinal0 = DaysInYear(self.year) - 1 =>
               \A s \in SeasonNames :
                   LET days == DaysInSeason(self.year, s)
                       apostolic == {e \in days : Poee(self.year, e).holiday
                                                     = "\nCelebrate " \o ApostleOf(s)}
                       seasonal == {e \in days : Poee(self.year, e).holiday
                                                    = "\nCelebrate " \o FluxOf(s)}
                       plain == {e \in days : Poee(self.year, e).holiday = ""}
                   IN  /\ Cardinality(apostolic) = 1
                       /\ Cardinality(seasonal) = 1
                       /\ Cardinality(plain) = 71
                       /\ \A e \in apostolic : Poee(self.year, e).day_of_season = 5
                       /\ \A e \in seasonal : Poee(self.year, e).day_of_season = 50

C4_Witness ==
    /\ pc = "done"
    /\ self = [year |-> 2017, ordinal0 |-> 296]
    /\ ret.text = "Boomtime, the 5th day of The Aftermath in the YOLD 3183\nCelebrate Maladay"

\* C7: for every date of the calendar other than St. Tib's Day the season
\* index day_offset / 73 and the weekday index day_offset % 5 lie in 0..4 and
\* the day of season day_offset % 73 + 1 lies in 1..73, so no lookup is out of
\* bounds and a string is returned.
C7_IndicesInBounds ==
    (ValidInput /\ ~IsTibsInput) =>
        /\ ret.outcome = "returned"
        /\ ret.at = 103
        /\ ret.panic = ""
        /\ ret.day_offset \div 73 \in 0..4
        /\ ret.day_offset % 5 \in 0..4
        /\ ret.day_of_season = (ret.day_offset % 73) + 1
        /\ ret.day_of_season \in 1..73
        /\ ret.season \in SeasonNames
        /\ ret.text # ""

C7_Witness ==
    /\ pc = "done"
    /\ self = [year |-> 2000, ordinal0 |-> 365]
    /\ ret.outcome = "returned"
    /\ ret.day_offset = 364

\* C9: to_poee validates nothing and returns no error value: when the
\* leap-adjusted day offset is 365 or more the season index is 5 or more and
\* the SEASONS lookup panics before any string is produced; for every smaller
\* offset a string is returned.
C9_OutOfRangePanics ==
    Called =>
        LET off == IF GregorianLeap(self.year) /\ self.ordinal0 > 59
                   THEN self.ordinal0 - 1 ELSE self.ordinal0
        IN  IF ~IsTibsInput /\ off >= 365
            THEN /\ ret.outcome = "panicked"
                 /\ ret.at = 92
                 /\ ret.text = ""
                 /\ off \div 73 >= 5
                 /\ ret.panic = "index out of bounds: the len is 5 but the index is "
                                    \o ToString(off \div 73)
            ELSE /\ ret.outcome = "returned"
                 /\ ret.panic = ""
                 /\ ret.text = IF IsTibsInput THEN TibsText(self.year)
                               ELSE Rendered(ret, self.year)

C9_Witness ==
    /\ pc = "done"
    /\ self = [year |-> 2017, ordinal0 |-> 365]
    /\ ret.outcome = "panicked"

\* C10: run on each day of consecutive years, the weekday advances by one
\* position in the cycle on every day that is not St. Tib's Day, St. Tib's
\* Day not advancing it; the last day of every year is Setting Orange, the
\* 73rd day of The Aftermath, and the first is Sweetmorn, the 1st day of Chaos.
C10_WeekdayCycleUnbroken ==
    [][LET before == IF ret.at = 103 THEN ret ELSE last
       IN  /\ ret'.outcome = "returned"
           /\ (ret'.at = 103 /\ before.at = 103) =>
                  ret'.weekday = NextWeekday(before.weekday)
           /\ today'.ordinal0 = 0 =>
                  /\ stdout' = "Today is Sweetmorn, the 1st day of Chaos in the YOLD "
                                   \o ToString(today'.year + 1166)
                  /\ ret.at # 0 =>
                         stdout = "Today is Setting Orange, the 73rd day of The Aftermath in the YOLD "
                                      \o ToString(today.year + 1166)
      ]_vars

C10_Witness ==
    /\ today = [year |-> 2000, ordinal0 |-> 60]
    /\ ret.weekday = "Setting Orange"
    /\ last.weekday = "Prickle-Prickle"
    /\ last.day_of_season = 59

====
